---- MODULE Spec2Model ----
(***************************************************************************)
(* Motivation Widget (src/Widget_front.py): the JSON state store           *)
(* (load_state, save_state, _apply_defaults), the resize clamp, the text   *)
(* buffer with its formatting tags (_capture_tags, _apply_tags_from_state) *)
(* and the UI handlers that mutate the in-memory document and save it.     *)
(*                                                                         *)
(* A JSON value is a tagged record [t, v]: t is the Python type the json   *)
(* module produces ("obj" dict, "list", "str", "int", "flt", "bool",       *)
(* "null"), v the payload.  A dict also keeps o, its keys in insertion     *)
(* order, as Python's dict and the json module do; a float is kept in      *)
(* hundredths (alpha 0.3 is JFlt(30)).                                     *)
(***************************************************************************)
EXTENDS Integers, Sequences, FiniteSets, TLC

VARIABLES
    pc,        \* where the process is: "off", "loaded", "merged", "crashed", ...
    file,      \* widget_state.json: [exists, toks]
    state,     \* self.state, the in-memory document
    loaded,    \* what load_state returned at the last startup
    file0,     \* the state file as it was when the process started
    src_doc,   \* the document handed to save_state in the store-only runs
    win,       \* the root window: size, position, -topmost, -alpha, bg
    ui,        \* widget options save_all reads back: container bg, text fg, insertbackground
    ctl,       \* the Tk variables of the toolbar and the list of font families
    base_font, \* self.base_font
    text,      \* the characters of the text widget
    tags,      \* its tags, lowest priority first
    sel,       \* the selection: <<>> or <<first, last>> as offsets
    grab,      \* what _start_move and _start_resize remember
    last,      \* the handler that ran last and what it did
    hist,      \* since the launch: the opacity loaded, whether the control moved, save_all ran
    steps      \* handlers run so far

wvars == <<win, ui, ctl, base_font, text, tags, sel, grab, last, hist, steps>>
vars == <<pc, file, state, loaded, file0, src_doc, win, ui, ctl, base_font, text, tags, sel,
          grab, last, hist, steps>>

(***************************************************************************)
(* JSON values                                                             *)
(***************************************************************************)
JStr(s)  == [t |-> "str",  v |-> s]
JInt(n)  == [t |-> "int",  v |-> n]
JFlt(n)  == [t |-> "flt",  v |-> n]
JBool(b) == [t |-> "bool", v |-> b]
JNull    == [t |-> "null", v |-> 0]
JList(s) == [t |-> "list", v |-> s]

\* the dict {}
Empty == [t |-> "obj", v |-> [k \in {} |-> 0], o |-> <<>>]

Has(d, k) == k \in DOMAIN d.v

\* d[k] = val on a dict: a new key goes last, a present key keeps its place
Put(d, k, val) ==
    [t |-> "obj",
     v |-> [q \in DOMAIN d.v \cup {k} |-> IF q = k THEN val ELSE d.v[q]],
     o |-> IF Has(d, k) THEN d.o ELSE Append(d.o, k)]

RECURSIVE PutAll(_, _, _)
PutAll(d, pairs, i) ==
    IF i > Len(pairs) THEN d ELSE PutAll(Put(d, pairs[i][1], pairs[i][2]), pairs, i + 1)

\* the dict literal {k1: v1, k2: v2, ...}
JObj(pairs) == PutAll(Empty, pairs, 1)

\* what an exception leaving a function is modelled by
Raise == [t |-> "raise", v |-> 0]

\* not a JSON value: the place of a key that a document does not hold
Absent == [t |-> "absent", v |-> 0]

OptPut(d, k, o) == IF o = Absent THEN d ELSE Put(d, k, o)

(***************************************************************************)
(* json.dump / json.load on a stream of tokens.  The text of the file is   *)
(* kept at the level of JSON tokens: punctuation, string, integer and      *)
(* float literals, true, false, null.                                      *)
(***************************************************************************)
Tok(k, s, n) == [k |-> k, s |-> s, n |-> n]
P(k) == Tok(k, "", 0)

RECURSIVE Dump(_)
RECURSIVE DumpMembers(_, _)
RECURSIVE DumpElems(_, _)

DumpMembers(d, i) ==
    IF i > Len(d.o) THEN <<>>
    ELSE <<Tok("str", d.o[i], 0), P(":")>> \o Dump(d.v[d.o[i]])
         \o (IF i = Len(d.o) THEN <<>> ELSE <<P(",")>> \o DumpMembers(d, i + 1))

DumpElems(s, i) ==
    IF i > Len(s) THEN <<>>
    ELSE Dump(s[i]) \o (IF i = Len(s) THEN <<>> ELSE <<P(",")>> \o DumpElems(s, i + 1))

\* Dump with a whole float written without its fraction (1.0 as 1)
DumpFloatAsInt(v) ==
    IF v.t = "str" THEN <<Tok("str", v.v, 0)>>
    ELSE IF v.t = "int" THEN <<Tok("int", "", v.v)>>
    ELSE IF v.t = "flt" THEN
        (IF v.v % 100 = 0 THEN <<Tok("int", "", v.v \div 100)>> ELSE <<Tok("flt", "", v.v)>>)
    ELSE IF v.t = "bool" THEN <<P(IF v.v THEN "true" ELSE "false")>>
    ELSE IF v.t = "null" THEN <<P("null")>>
    ELSE IF v.t = "list" THEN <<P("[")>> \o DumpElems(v.v, 1) \o <<P("]")>>
    ELSE <<P("{")>> \o DumpMembers(v, 1) \o <<P("}")>>

Dump(v) ==
    IF v.t = "str" THEN <<Tok("str", v.v, 0)>>
    ELSE IF v.t = "int" THEN <<Tok("int", "", v.v)>>
    ELSE IF v.t = "flt" THEN <<Tok("flt", "", v.v)>>
    ELSE IF v.t = "bool" THEN <<P(IF v.v THEN "true" ELSE "false")>>
    ELSE IF v.t = "null" THEN <<P("null")>>
    ELSE IF v.t = "list" THEN <<P("[")>> \o DumpElems(v.v, 1) \o <<P("]")>>
    ELSE <<P("{")>> \o DumpMembers(v, 1) \o <<P("}")>>

\* the result of a parse step: the value and the index of the next token
Ok(val, i) == [ok |-> TRUE, v |-> val, i |-> i]
Bad == [ok |-> FALSE, v |-> JNull, i |-> 0]

RECURSIVE ParseValue(_, _)
RECURSIVE ParseMembers(_, _, _)
RECURSIVE ParseElems(_, _, _)

\* what follows the value r of the member key: "," and a member, or "}"
AfterMember(toks, key, acc, r) ==
    IF ~r.ok \/ r.i > Len(toks) THEN Bad
    ELSE IF toks[r.i].k = "}" THEN Ok(Put(acc, key, r.v), r.i + 1)
    ELSE IF toks[r.i].k = "," THEN ParseMembers(toks, r.i + 1, Put(acc, key, r.v))
    ELSE Bad

\* after "{" or ",": "key" : value
ParseMembers(toks, i, acc) ==
    IF i + 1 > Len(toks) \/ toks[i].k # "str" \/ toks[i + 1].k # ":" THEN Bad
    ELSE AfterMember(toks, toks[i].s, acc, ParseValue(toks, i + 2))

\* what follows the element r of a list: "," and an element, or "]"
AfterElem(toks, acc, r) ==
    IF ~r.ok \/ r.i > Len(toks) THEN Bad
    ELSE IF toks[r.i].k = "]" THEN Ok(JList(Append(acc, r.v)), r.i + 1)
    ELSE IF toks[r.i].k = "," THEN ParseElems(toks, r.i + 1, Append(acc, r.v))
    ELSE Bad

\* after "[" or ",": value
ParseElems(toks, i, acc) == AfterElem(toks, acc, ParseValue(toks, i))

ParseValue(toks, i) ==
    IF i > Len(toks) THEN Bad
    ELSE LET k == toks[i].k
         IN  IF k = "str" THEN Ok(JStr(toks[i].s), i + 1)
             ELSE IF k = "int" THEN Ok(JInt(toks[i].n), i + 1)
             ELSE IF k = "flt" THEN Ok(JFlt(toks[i].n), i + 1)
             ELSE IF k = "true" THEN Ok(JBool(TRUE), i + 1)
             ELSE IF k = "false" THEN Ok(JBool(FALSE), i + 1)
             ELSE IF k = "null" THEN Ok(JNull, i + 1)
             ELSE IF k = "{" THEN
                 IF i + 1 <= Len(toks) /\ toks[i + 1].k = "}"
                 THEN Ok(Empty, i + 2)
                 ELSE ParseMembers(toks, i + 1, Empty)
             ELSE IF k = "[" THEN
                 IF i + 1 <= Len(toks) /\ toks[i + 1].k = "]"
                 THEN Ok(JList(<<>>), i + 2)
                 ELSE ParseElems(toks, i + 1, <<>>)
             ELSE Bad

\* json.load: one value and nothing after it, else an exception
WholeValue(toks, r) == IF r.ok /\ r.i = Len(toks) + 1 THEN r.v ELSE Raise

json_load(toks) == WholeValue(toks, ParseValue(toks, 1))

json_dump(v) == Dump(v)

(***************************************************************************)
(* The state file                                                          *)
(***************************************************************************)
NoFile == [exists |-> FALSE, toks |-> <<>>]
FileOf(toks) == [exists |-> TRUE, toks |-> toks]

ensure_state_file(f) == IF f.exists THEN f ELSE FileOf(json_dump(Empty))

\* load_state without its try/except
load_raises(f) == json_load(ensure_state_file(f).toks)

\* the value load_state returns; the bare except turns a failed parse into {}
OrEmpty(r) == IF r = Raise THEN Empty ELSE r

load_state(f) == OrEmpty(json_load(ensure_state_file(f).toks))

save_state(data) == FileOf(json_dump(data))

(***************************************************************************)
(* DEFAULTS and _apply_defaults                                            *)
(***************************************************************************)
DEFAULTS ==
    JObj(<< <<"geometry", JStr("600x320+100+100")>>,
            <<"always_on_top", JBool(TRUE)>>,
            <<"alpha", JFlt(100)>>,
            <<"colors", JObj(<< <<"background", JStr("#0A1F44")>>,
                                <<"text", JStr("#FFFFFF")>>,
                                <<"accent", JStr("#FFD700")>>,
                                <<"border", JStr("#222222")>> >>)>>,
            <<"border_thickness", JInt(2)>>,
            <<"base_font", JObj(<< <<"family", JStr("Segoe UI")>>,
                                   <<"size", JInt(16)>>,
                                   <<"weight", JStr("normal")>>,
                                   <<"slant", JStr("roman")>> >>)>>,
            <<"content", JObj(<< <<"text", JStr("")>>, <<"tags", Empty>> >>)>> >>)

RECURSIVE deep_merge(_, _)
RECURSIVE MergeKeys(_, _, _)

\* dst[k] = the merged sub-dict, and the keys of src that are left
MergeSub(dst, src, i, sub) ==
    IF sub = Raise THEN Raise ELSE MergeKeys(Put(dst, src.o[i], sub), src, i + 1)

\* the loop of deep_merge over the keys of src that are left; dst.get and
\* dst.setdefault raise AttributeError when dst is not a dict
MergeKeys(dst, src, i) ==
    IF i > Len(src.o) THEN dst
    ELSE IF dst.t # "obj" THEN Raise
    ELSE IF src.v[src.o[i]].t = "obj"
    THEN MergeSub(dst, src, i,
             deep_merge(IF Has(dst, src.o[i]) THEN dst.v[src.o[i]] ELSE Empty, src.v[src.o[i]]))
    ELSE MergeKeys(IF Has(dst, src.o[i]) THEN dst ELSE Put(dst, src.o[i], src.v[src.o[i]]),
                   src, i + 1)

deep_merge(dst, src) == MergeKeys(dst, src, 1)

_apply_defaults(st) == deep_merge(IF st.t = "obj" THEN st ELSE Empty, DEFAULTS)

\* a range of a tag as the document holds it
JRange(a, b) == JList(<<JStr(a), JStr(b)>>)

JTag(cfg, ranges) == JObj(<< <<"config", cfg>>, <<"ranges", JList(ranges)>> >>)

JFont(fam, size, weight, slant) ==
    JObj(<< <<"family", JStr(fam)>>, <<"size", JInt(size)>>, <<"weight", JStr(weight)>>,
            <<"slant", JStr(slant)>>, <<"underline", JInt(0)>>, <<"overstrike", JInt(0)>> >>)

(***************************************************************************)
(* Bounds of the model                                                     *)
(***************************************************************************)
\* the longest text a key press may produce
MaxLen == 2
\* the largest line and column number an index string of a file is read with
MaxIdx == 6
\* handlers run after a launch in the runs of the whole widget
MaxSteps == 2

(***************************************************************************)
(* The Tk text widget: its characters, text indices "line.column" and tags *)
(* A text is a sequence of characters; Tk keeps one more newline after it. *)
(* An offset counts characters from the start; offset Len(T) is that last  *)
(* newline and offset Len(T) + 1 is the index "end".                       *)
(***************************************************************************)
Alphabet == {"a", "\n"}
Hello == <<"H", "e", "l", "l", "o">>

RECURSIVE Join(_)
\* the Python str of a sequence of characters
Join(T) == IF T = <<>> THEN "" ELSE T[1] \o Join(Tail(T))

\* T with the characters at the places S only
Pick(T, S) ==
    [i \in 1..Cardinality(S) |-> T[CHOOSE k \in S : Cardinality({j \in S : j < k}) = i - 1]]

\* the texts the widget can hold: what is left of Hello when characters are
\* deleted, and what can be typed
KnownTexts ==
    UNION {[1..n -> Alphabet \cup {Hello[i] : i \in DOMAIN Hello}] : n \in 0..MaxLen}
    \cup {Pick(Hello, S) : S \in SUBSET DOMAIN Hello}

\* text.insert("1.0", s): the characters of a str
Chars(str) == CHOOSE T \in KnownTexts : Join(T) = str

Min(a, b) == IF a < b THEN a ELSE b
Max(a, b) == IF a > b THEN a ELSE b

WithEnd(T) == Append(T, "\n")

\* offsets of the newlines before offset off
NewlinesBefore(T, off) == {i \in 0..(off - 1) : WithEnd(T)[i + 1] = "\n"}

LineOf(T, off) == 1 + Cardinality(NewlinesBefore(T, off))

SetMax(S) == CHOOSE x \in S : \A y \in S : y <= x

LineStartOf(T, off) ==
    IF NewlinesBefore(T, off) = {} THEN 0 ELSE SetMax(NewlinesBefore(T, off)) + 1

IdxStr(l, c) == ToString(l) \o "." \o ToString(c)

\* str(index) of an offset in 0..Len(T)+1
IndexStr(T, off) == IdxStr(LineOf(T, off), off - LineStartOf(T, off))

NumLines(T) == LineOf(T, Len(T))

\* the offset of the first character of line l
LineStart(T, l) == CHOOSE o \in 0..Len(T) : LineOf(T, o) = l /\ LineStartOf(T, o) = o

\* the offset of the newline that ends the line starting at offset start
LineEnd(T, start) ==
    CHOOSE o \in start..Len(T) :
        WithEnd(T)[o + 1] = "\n" /\ \A q \in start..(o - 1) : WithEnd(T)[q + 1] # "\n"

ColumnAt(T, start, c) == Min(start + c, LineEnd(T, start))

\* the offset Tk gives the index line.col: a line before the first is 1.0, a
\* line after the last is "end", a column past the line's end is its newline
OffsetOf(T, l, c) ==
    IF l < 1 THEN 0
    ELSE IF l > NumLines(T) THEN Len(T) + 1
    ELSE ColumnAt(T, LineStart(T, l), c)

BadIndex == 0 - 1

OffsetOfHits(T, hits) ==
    IF hits = {} THEN BadIndex ELSE OffsetOf(T, (CHOOSE x \in hits : TRUE)[1], (CHOOSE x \in hits : TRUE)[2])

\* the offset of an index string, BadIndex where Tk raises "bad text index"
ParseIndex(T, str) ==
    OffsetOfHits(T, {lc \in (0..MaxIdx) \X (0..MaxIdx) : IdxStr(lc[1], lc[2]) = str})

\* a tkfont.Font as a tag or the text widget uses it: live is FALSE once the
\* Python object is gone and Tk has deleted the named font
NoFont == [set |-> FALSE, live |-> FALSE, family |-> "", size |-> 0, weight |-> "", slant |-> ""]
MkFont(fam, size, weight, slant) ==
    [set |-> TRUE, live |-> TRUE, family |-> fam, size |-> size, weight |-> weight, slant |-> slant]

NewTag(name) == [name |-> name, font |-> NoFont, fg |-> "", bg |-> "", cover |-> {}]

TagNames(tg) == {tg[i].name : i \in DOMAIN tg}
TagAt(tg, name) == CHOOSE i \in DOMAIN tg : tg[i].name = name

\* a tag exists once it is configured or added; new tg get the top priority
EnsureTag(tg, name) == IF name \in TagNames(tg) THEN tg ELSE Append(tg, NewTag(name))

SetTagFont(t, name, f) == [t EXCEPT ![TagAt(t, name)].font = f]
SetTagFg(t, name, c) == [t EXCEPT ![TagAt(t, name)].fg = c]
SetTagBg(t, name, c) == [t EXCEPT ![TagAt(t, name)].bg = c]

tag_configure_font(tg, name, f) == SetTagFont(EnsureTag(tg, name), name, f)
tag_configure_fg(tg, name, c) == SetTagFg(EnsureTag(tg, name), name, c)
tag_configure_bg(tg, name, c) == SetTagBg(EnsureTag(tg, name), name, c)

\* the tag name of t over the characters of [a, b) of T
Cover(T, t, name, a, b) ==
    [t EXCEPT ![TagAt(t, name)].cover = @ \cup {o \in a..(b - 1) : o <= Len(T)}]

\* text.tag_add(name, i1, i2) on offsets
TagAddOffsets(T, tg, name, a, b) == Cover(T, EnsureTag(tg, name), name, a, b)

TagAddParsed(T, tg, name, a, b) ==
    IF a = BadIndex \/ b = BadIndex THEN EnsureTag(tg, name)
    ELSE TagAddOffsets(T, tg, name, a, b)

\* text.tag_add(name, start, end) on index strings: Tk creates the tag, then
\* raises on a bad index and adds nothing
tag_add(T, tg, name, start, end) ==
    TagAddParsed(T, tg, name, ParseIndex(T, start), ParseIndex(T, end))

RECURSIVE RangesFrom(_, _, _)
\* the end of the run of tagged characters that starts at offset o
RunEnd(T, cover, o) ==
    CHOOSE x \in (o + 1)..(Len(T) + 1) : (\A q \in o..(x - 1) : q \in cover) /\ x \notin cover

RangeTo(T, cover, o, e) ==
    <<JRange(IndexStr(T, o), IndexStr(T, e))>> \o RangesFrom(T, cover, e)

\* text.tag_ranges: the maximal runs of tagged characters from offset o on
RangesFrom(T, cover, o) ==
    IF o > Len(T) THEN <<>>
    ELSE IF o \notin cover THEN RangesFrom(T, cover, o + 1)
    ELSE RangeTo(T, cover, o, RunEnd(T, cover, o))

tag_ranges(T, cover) == RangesFrom(T, cover, 0)

\* _font_to_dict of a named font that exists
_font_to_dict(f) == JFont(f.family, f.size, f.weight, f.slant)

\* the cfg dict _capture_tags builds for one tag: tkfont.Font(name=...,
\* exists=True) raises for a deleted font and the except passes
CaptureConfig(tag) ==
    LET c1 == IF tag.font.set /\ tag.font.live
              THEN Put(Empty, "font", _font_to_dict(tag.font)) ELSE Empty
        c2 == IF tag.fg # "" THEN Put(c1, "foreground", JStr(tag.fg)) ELSE c1
    IN  IF tag.bg # "" THEN Put(c2, "background", JStr(tag.bg)) ELSE c2

RECURSIVE CaptureFrom(_, _, _, _)

\* if cfg or ranges: tags[tag] = {"config": cfg, "ranges": ranges}
CaptureTag(acc, name, cfg, ranges) ==
    IF cfg # Empty \/ ranges # <<>> THEN Put(acc, name, JTag(cfg, ranges)) ELSE acc

\* the loop of _capture_tags over text.tag_names()
CaptureFrom(T, tg, i, acc) ==
    IF i > Len(tg) THEN acc
    ELSE CaptureFrom(T, tg, i + 1,
             CaptureTag(acc, tg[i].name, CaptureConfig(tg[i]), tag_ranges(T, tg[i].cover)))

\* _capture_tags: "sel" is not among the tags here, it is kept apart
_capture_tags(T, tg) == CaptureFrom(T, tg, 1, Empty)

\* the Python Font objects of a handler are locals: when it returns they are
\* collected, Font.__del__ deletes the named font, and Tk keeps it only for
\* display (it is no longer among "font names")
ReleaseFonts(tg) == [i \in DOMAIN tg |-> [tg[i] EXCEPT !.font.live = FALSE]]

safe_int(x, default) == IF x.t = "int" THEN x.v ELSE IF x.t = "flt" THEN x.v \div 100 ELSE default

GetOr(d, k, default) == IF Has(d, k) THEN d.v[k] ELSE default

StrOr(x, default) == IF x.t = "str" THEN x.v ELSE default

\* _dict_to_font: d.get raises unless d is a dict, Tk rejects other weights and slants
FontDictOk(d) ==
    /\ d.t = "obj"
    /\ StrOr(GetOr(d, "weight", JStr("normal")), "?") \in {"normal", "bold"}
    /\ StrOr(GetOr(d, "slant", JStr("roman")), "?") \in {"roman", "italic"}

_dict_to_font(d) ==
    MkFont(StrOr(GetOr(d, "family", JStr("Segoe UI")), "Segoe UI"),
           safe_int(GetOr(d, "size", JInt(16)), 16),
           StrOr(GetOr(d, "weight", JStr("normal")), "normal"),
           StrOr(GetOr(d, "slant", JStr("roman")), "roman"))

Restored(tg) == [ok |-> TRUE, tags |-> tg]
RestoreFailed == [ok |-> FALSE, tags |-> <<>>]

RECURSIVE RestoreRanges(_, _, _, _, _)
\* for start, end in data.get("ranges", []): try tag_add except pass
RestoreRanges(T, tg, name, rs, i) ==
    IF i > Len(rs) THEN Restored(tg)
    ELSE IF rs[i].t # "list" \/ Len(rs[i].v) # 2 THEN RestoreFailed
    ELSE RestoreRanges(T,
             IF rs[i].v[1].t = "str" /\ rs[i].v[2].t = "str"
             THEN tag_add(T, tg, name, rs[i].v[1].v, rs[i].v[2].v)
             ELSE EnsureTag(tg, name),
             name, rs, i + 1)

RestoreBg(tg, name, cfg) ==
    IF Has(cfg, "background")
    THEN tag_configure_bg(tg, name, StrOr(cfg.v.background, "")) ELSE tg

RestoreFg(tg, name, cfg) ==
    IF Has(cfg, "foreground")
    THEN tag_configure_fg(tg, name, StrOr(cfg.v.foreground, "")) ELSE tg

RestoreFont(tg, name, cfg) ==
    IF Has(cfg, "font")
    THEN tag_configure_font(tg, name, _dict_to_font(cfg.v.font)) ELSE tg

\* the tag_configure calls for one tag of the document
RestoreConfig(tg, name, cfg) ==
    RestoreBg(RestoreFg(RestoreFont(tg, name, cfg), name, cfg), name, cfg)

RECURSIVE RestoreFrom(_, _, _, _)

\* the tags that are left, once the ranges of this one are added
RestoreNext(T, jt, i, r) == IF r.ok THEN RestoreFrom(T, r.tags, jt, i + 1) ELSE RestoreFailed

\* one tag of the document: data.get raises unless data is a dict, and so
\* does the loop over a config or ranges of another type
RestoreTag(T, tg, jt, i, name, cfg, rs) ==
    IF cfg.t # "obj" \/ rs.t # "list" THEN RestoreFailed
    ELSE IF Has(cfg, "font") /\ ~FontDictOk(cfg.v.font) THEN RestoreFailed
    ELSE RestoreNext(T, jt, i, RestoreRanges(T, RestoreConfig(tg, name, cfg), name, rs.v, 1))

\* for tag, data in tags.items()
RestoreFrom(T, tg, jt, i) ==
    IF i > Len(jt.o) THEN Restored(tg)
    ELSE IF jt.v[jt.o[i]].t # "obj" THEN RestoreFailed
    ELSE RestoreTag(T, tg, jt, i, jt.o[i],
                    GetOr(jt.v[jt.o[i]], "config", Empty),
                    GetOr(jt.v[jt.o[i]], "ranges", JList(<<>>)))

\* the Font objects _apply_tags_from_state made are gone when it returns
RestoreDone(r) == IF r.ok THEN Restored(ReleaseFonts(r.tags)) ELSE RestoreFailed

\* _apply_tags_from_state into the tags tg of a buffer holding T
_apply_tags_from_state(T, tg, jt) ==
    IF jt.t # "obj" THEN RestoreFailed ELSE RestoreDone(RestoreFrom(T, tg, jt, 1))

\* the widget before the process has built it
NoWin == [w |-> 0, h |-> 0, x |-> 0, y |-> 0, topmost |-> FALSE, alpha |-> 0, bg |-> ""]
NoUi == [container_bg |-> "", text_fg |-> "", insert_bg |-> "", pad |-> 0]
NoCtl == [alpha_var |-> 0, border_var |-> JInt(0), base_font_var |-> "", base_size_var |-> 0,
          font_families |-> {}]
NoGrab == [resizing |-> FALSE, start_w |-> 0, start_h |-> 0, start_rx |-> 0, start_ry |-> 0,
           moving |-> FALSE, offx |-> 0, offy |-> 0]
\* what a handler did: whether it found a selection, changed self.state,
\* called save_state, let an exception out, showed an error dialog; the size
\* _do_resize asked for
Did(op) == [op |-> op, arg |-> "", hadsel |-> FALSE, changed |-> FALSE, saved |-> FALSE,
            raised |-> FALSE, err |-> FALSE, w |-> 0, h |-> 0]
NoHist == [alpha0 |-> Absent, alpha_moved |-> FALSE, saved_all |-> FALSE, from_capture |-> FALSE]

WidgetOff ==
    /\ win = NoWin
    /\ ui = NoUi
    /\ ctl = NoCtl
    /\ base_font = NoFont
    /\ text = <<>>
    /\ tags = <<>>
    /\ sel = <<>>
    /\ grab = NoGrab
    /\ last = Did("none")
    /\ hist = NoHist
    /\ steps = 0

(***************************************************************************)
(* The window: wm geometry, the resize clamp, the opacity scale            *)
(***************************************************************************)
\* clamp without its lower bound
clamp_no_floor(v, lo, hi) == Min(hi, v)

clamp(v, lo, hi) == Max(lo, Min(hi, v))

MinW == 320
MaxW == 1600
MinH == 180
MaxH == 1200
MinFontSize == 8
MaxFontSize == 96
MinBorder == 0
MaxBorder == 16
ScaleFrom == 50
ScaleTo == 100
ScaleResolution == 5

\* root.geometry(): "WxH+X+Y"
GeomStr(w, h, x, y) ==
    ToString(w) \o "x" \o ToString(h) \o "+" \o ToString(x) \o "+" \o ToString(y)

\* the sizes and positions a window of the model can have
GeoW == {100, MinW, 400, 600, MaxW, 2000}
GeoH == {100, MinH, 300, 320, MaxH, 2000}
GeoPos == {<<10, 20>>, <<100, 100>>, <<110, 110>>}

\* root.geometry(str): the window it asks for, or none when Tk rejects str
GeomHits(str) ==
    {g \in GeoW \X GeoH \X GeoPos : GeomStr(g[1], g[2], g[3][1], g[3][2]) = str}


\* what the Scale does with its variable when it is created or the variable
\* is written: round to the resolution, bring into [from, to], write it back
ScaleFit(a) ==
    clamp(((a + (ScaleResolution \div 2)) \div ScaleResolution) * ScaleResolution,
          ScaleFrom, ScaleTo)

Truthy(x) ==
    IF x.t = "bool" THEN x.v
    ELSE IF x.t = "int" \/ x.t = "flt" THEN x.v # 0
    ELSE IF x.t = "str" THEN x.v # ""
    ELSE IF x.t = "null" THEN FALSE
    ELSE IF x.t = "list" THEN Len(x.v) > 0
    ELSE Len(x.o) > 0

\* float(x) in hundredths
FloatOf(x) == IF x.t = "flt" THEN x.v ELSE x.v * 100

\* state[k1][k2] = val
Put2(d, k1, k2, val) == Put(d, k1, Put(d.v[k1], k2, val))

(***************************************************************************)
(* save_all: the document after it has read the widgets back.  IntVar.get  *)
(* raises when the spinbox text is not a number: the lines before it have  *)
(* already written into self.state and save_state is not reached.          *)
(***************************************************************************)
IntVarOk(x) == x.t = "int"

\* lines 485-491
SaveAllHead(st, T, tg, w, u) ==
    LET s1 == Put2(st, "content", "text", JStr(Join(T)))
        s2 == Put2(s1, "content", "tags", _capture_tags(T, tg))
        s3 == Put2(s2, "colors", "background", JStr(u.container_bg))
        s4 == Put2(s3, "colors", "text", JStr(u.text_fg))
        s5 == Put2(s4, "colors", "accent", JStr(u.insert_bg))
    IN  Put2(s5, "colors", "border", JStr(w.bg))

\* lines 496-502
SaveAllTail(st, w, bf) ==
    LET s10 == Put2(st, "base_font", "family", JStr(bf.family))
        s11 == Put2(s10, "base_font", "size", JInt(bf.size))
        s12 == Put2(s11, "base_font", "weight", JStr(bf.weight))
        s13 == Put2(s12, "base_font", "slant", JStr(bf.slant))
    IN  Put(s13, "geometry", JStr(GeomStr(w.w, w.h, w.x, w.y)))


\* ok: save_state was reached and wrote doc; else doc is what self.state holds
\* when the exception leaves save_all
save_all(st, T, tg, w, u, c, bf) ==
    LET s6 == SaveAllHead(st, T, tg, w, u)
    IN  IF ~IntVarOk(c.border_var) THEN [ok |-> FALSE, doc |-> s6]
        ELSE [ok |-> TRUE,
              doc |-> SaveAllTail(Put(Put(Put(s6, "border_thickness", c.border_var),
                                          "alpha", JFlt(c.alpha_var)),
                                      "always_on_top", JBool(w.topmost)), w, bf)]

(***************************************************************************)
(* __init__                                                                *)
(***************************************************************************)
\* the fonts the system offers: tkfont.families()
SystemFamilies == {"Arial", "Segoe UI"}

\* what __init__ needs of the merged document to build the widgets: Tk and
\* the conversions int(), float() raise on other types
Buildable(st) ==
    /\ st.t = "obj"
    /\ st.v.geometry.t = "str"
    /\ st.v.alpha.t \in {"flt", "int"}
    /\ st.v.border_thickness.t = "int"
    /\ \A k \in {"background", "text", "accent", "border"} : st.v.colors.v[k].t = "str"
    /\ st.v.base_font.v.family.t = "str"
    /\ st.v.base_font.v.size.t = "int"
    /\ st.v.base_font.v.weight.t = "str" /\ st.v.base_font.v.weight.v \in {"normal", "bold"}
    /\ st.v.base_font.v.slant.t = "str" /\ st.v.base_font.v.slant.v \in {"roman", "italic"}
    /\ st.v.content.v.text.t = "str"
    /\ \E T \in KnownTexts : Join(T) = st.v.content.v.text.v

\* the size and place the window gets: root.geometry raises on a string Tk
\* cannot read and the except sets the default geometry
GeomOr(hits) == IF hits = {} THEN <<600, 320, <<100, 100>> >> ELSE CHOOSE x \in hits : TRUE

WinAt(st, g) ==
    [w |-> g[1], h |-> g[2], x |-> g[3][1], y |-> g[3][2],
     topmost |-> Truthy(st.v.always_on_top),
     alpha |-> clamp(FloatOf(st.v.alpha), 0, 100),
     bg |-> st.v.colors.v.border.v]

\* the root window after lines 85-92
InitWin(st) == WinAt(st, GeomOr(GeomHits(st.v.geometry.v)))

InitUi(st) ==
    [container_bg |-> st.v.colors.v.background.v,
     text_fg |-> st.v.colors.v.text.v,
     insert_bg |-> st.v.colors.v.accent.v,
     pad |-> st.v.border_thickness.v]

InitCtl(st) ==
    [alpha_var |-> ScaleFit(FloatOf(st.v.alpha)),
     border_var |-> JInt(st.v.border_thickness.v),
     base_font_var |-> st.v.base_font.v.family.v,
     base_size_var |-> st.v.base_font.v.size.v,
     font_families |-> SystemFamilies]

InitBaseFont(st) ==
    MkFont(st.v.base_font.v.family.v, st.v.base_font.v.size.v,
           st.v.base_font.v.weight.v, st.v.base_font.v.slant.v)

\* __init__ raises: no widget
Crashed(doc) ==
    /\ pc' = "crashed"
    /\ state' = doc
    /\ win' = NoWin /\ ui' = NoUi /\ ctl' = NoCtl /\ base_font' = NoFont
    /\ text' = <<>> /\ tags' = <<>>
    /\ hist' = NoHist

\* _load_content has put the text T and the tags r into the text widget
Loaded(st, T, r) ==
    IF ~r.ok THEN Crashed(st)
    ELSE /\ pc' = "mapping"
         /\ state' = st
         /\ win' = InitWin(st)
         /\ ui' = InitUi(st)
         /\ ctl' = InitCtl(st)
         /\ base_font' = InitBaseFont(st)
         /\ text' = T
         /\ tags' = r.tags
         /\ hist' = [alpha0 |-> st.v.alpha, alpha_moved |-> FALSE,
                     saved_all |-> FALSE, from_capture |-> hist.saved_all]

LoadContent(st, T) == Loaded(st, T, _apply_tags_from_state(T, <<>>, st.v.content.v.tags))

\* lines 85-229 on the merged document st
Build(ld, st) ==
    IF st = Raise THEN Crashed(ld)
    ELSE IF ~Buildable(st) THEN Crashed(st)
    ELSE LoadContent(st, Chars(st.v.content.v.text.v))

\* lines 81-82 have loaded ld
Started(ld) ==
    /\ loaded' = ld
    /\ Build(ld, _apply_defaults(ld))

\* main(): MotivationWidget(root), from load_state to _load_content.  The
\* window is not mapped yet: Tk delivers its first <Configure> before any
\* other event.
Launch ==
    /\ pc \in {"off", "closed", "hidden"}
    /\ file0' = file
    /\ file' = ensure_state_file(file)
    /\ src_doc' = src_doc
    /\ Started(load_state(file))
    /\ sel' = <<>>
    /\ grab' = NoGrab
    /\ last' = Did("launch")
    /\ steps' = steps

(***************************************************************************)
(* The handlers.  Each definition is the whole handler; what it costs of   *)
(* the run's budget of steps is added where a specification uses it.       *)
(***************************************************************************)
Store == <<loaded, file0, src_doc>>

\* self.save_all() at the end of a handler that has brought the document to
\* st and the widgets to T, tg, w, u, c, bf
SaveAllDone(op, r, hadsel, moved) ==
    /\ state' = r.doc
    /\ file' = IF r.ok THEN save_state(r.doc) ELSE file
    /\ last' = [Did(op) EXCEPT !.hadsel = hadsel, !.changed = (r.doc # state),
                               !.saved = r.ok, !.raised = ~r.ok]
    /\ hist' = [hist EXCEPT !.saved_all = @ \/ r.ok, !.alpha_moved = @ \/ moved]

DoSaveAll(op, st, T, tg, w, u, c, bf, hadsel, moved) ==
    SaveAllDone(op, save_all(st, T, tg, w, u, c, bf), hadsel, moved)

\* a handler that returns before it touches the document
DoNothing(op, arg, hadsel, err) ==
    /\ last' = [Did(op) EXCEPT !.arg = arg, !.hadsel = hadsel, !.err = err]
    /\ UNCHANGED <<state, file, hist>>

\* The Font objects of a handler are its locals.  When it returns they are
\* collected and Tk deletes the named font; when an exception leaves it,
\* Tk's report keeps its frame in sys.last_traceback, and drops the one of
\* the exception before.
ReleaseFont(tg, name) ==
    [i \in DOMAIN tg |-> IF tg[i].name = name THEN [tg[i] EXCEPT !.font.live = FALSE] ELSE tg[i]]
HoldFont(tg, name) ==
    [i \in DOMAIN tg |-> IF tg[i].name = name THEN tg[i] ELSE [tg[i] EXCEPT !.font.live = FALSE]]
FontsAfter(tg, name, raised) == IF raised THEN HoldFont(tg, name) ELSE ReleaseFont(tg, name)

\* _get_selection: sel.first and sel.last as index strings, or None, None
HasSel == sel # <<>>
SelStart == IndexStr(text, sel[1])
SelEnd == IndexStr(text, sel[2])

\* tkfont.Font(self.text, self.text.cget("font")): a copy of the base font
CopyOfBaseFont == MkFont(base_font.family, base_font.size, base_font.weight, base_font.slant)

\* a style action once the tag is named and its font or color is made
Styled(op, name, t1, hadsel) ==
    /\ DoSaveAll(op, state, text, t1, win, ui, ctl, base_font, hadsel, FALSE)
    /\ tags' = FontsAfter(t1, name, last'.raised)
    /\ UNCHANGED <<pc, Store, win, ui, ctl, base_font, text, sel, grab>>

StyleSelection(op, name, tg0) ==
    Styled(op, name, tag_add(text, tg0, name, SelStart, SelEnd), TRUE)

StyleNoSelection(op) ==
    /\ DoNothing(op, "", FALSE, FALSE)
    /\ UNCHANGED <<pc, Store, win, ui, ctl, base_font, text, tags, sel, grab>>

\* apply_bold without the check of the selection: it styles the whole text
apply_bold_unchecked ==
    Styled("apply_bold", "bold",
           tag_add(text,
               tag_configure_font(tags, "bold", [CopyOfBaseFont EXCEPT !.weight = "bold"]),
               "bold",
               IF HasSel THEN SelStart ELSE "1.0",
               IF HasSel THEN SelEnd ELSE IndexStr(text, Len(text) + 1)),
           HasSel)


apply_bold ==
    IF ~HasSel THEN StyleNoSelection("apply_bold")
    ELSE StyleSelection("apply_bold", "bold",
             tag_configure_font(tags, "bold", [CopyOfBaseFont EXCEPT !.weight = "bold"]))

SizeSelection(new_size) ==
    StyleSelection("apply_size", "size_" \o ToString(new_size),
        tag_configure_font(tags, "size_" \o ToString(new_size),
                           [CopyOfBaseFont EXCEPT !.size = new_size]))

apply_size(delta) ==
    IF ~HasSel THEN StyleNoSelection("apply_size")
    ELSE SizeSelection(clamp(base_font.size + delta, MinFontSize, MaxFontSize))

\* askcolor returns no color when the dialog is cancelled: color = ""
apply_color(color) ==
    IF ~HasSel THEN StyleNoSelection("apply_color")
    ELSE IF color = "" THEN
        /\ DoNothing("apply_color", "cancel", TRUE, FALSE)
        /\ UNCHANGED <<pc, Store, win, ui, ctl, base_font, text, tags, sel, grab>>
    ELSE StyleSelection("apply_color", "color_" \o color,
             tag_configure_fg(tags, "color_" \o color, color))

\* what a handler that is no style action leaves of the tags' fonts
TagsKept == IF last'.raised THEN HoldFont(tags, "") ELSE tags

pick_color(which, color) ==
    IF color = "" THEN
        /\ DoNothing("pick_color", "cancel", FALSE, FALSE)
        /\ UNCHANGED <<pc, Store, win, ui, ctl, base_font, text, tags, sel, grab>>
    ELSE LET u == IF which = "background" THEN [ui EXCEPT !.container_bg = color]
                  ELSE IF which = "text" THEN [ui EXCEPT !.text_fg = color]
                  ELSE IF which = "accent" THEN [ui EXCEPT !.insert_bg = color]
                  ELSE ui
             w == IF which = "border" THEN [win EXCEPT !.bg = color] ELSE win
         IN  /\ DoSaveAll("pick_color", Put2(state, "colors", which, JStr(color)),
                          text, tags, w, u, ctl, base_font, FALSE, FALSE)
             /\ win' = w
             /\ ui' = u
             /\ tags' = TagsKept
             /\ UNCHANGED <<pc, Store, ctl, base_font, text, sel, grab>>

\* an arrow of the border spinbox: Tk steps the number in the entry (from
\* the lowest value when the entry holds no number) and calls apply_border
BorderArrow(d) ==
    IF IntVarOk(ctl.border_var) THEN clamp(ctl.border_var.v + d, MinBorder, MaxBorder)
    ELSE MinBorder

apply_border(d) ==
    LET val == BorderArrow(d)
        c == [ctl EXCEPT !.border_var = JInt(val)]
        u == [ui EXCEPT !.pad = val]
    IN  /\ DoSaveAll("apply_border", Put(state, "border_thickness", JInt(val)),
                     text, tags, win, u, c, base_font, FALSE, FALSE)
        /\ ctl' = c
        /\ ui' = u
        /\ tags' = TagsKept
        /\ UNCHANGED <<pc, Store, win, base_font, text, sel, grab>>

\* the Scale has set alpha_var to a and calls its command
on_alpha_change(a) ==
    LET c == [ctl EXCEPT !.alpha_var = a]
        w == [win EXCEPT !.alpha = a]
    IN  /\ DoSaveAll("on_alpha_change", Put(state, "alpha", JFlt(a)),
                     text, tags, w, ui, c, base_font, FALSE, TRUE)
        /\ ctl' = c
        /\ win' = w
        /\ tags' = TagsKept
        /\ UNCHANGED <<pc, Store, ui, base_font, text, sel, grab>>

toggle_pin ==
    LET new == ~Truthy(state.v.always_on_top)
        w == [win EXCEPT !.topmost = new]
    IN  /\ DoSaveAll("toggle_pin", Put(state, "always_on_top", JBool(new)),
                     text, tags, w, ui, ctl, base_font, FALSE, FALSE)
        /\ win' = w
        /\ tags' = TagsKept
        /\ UNCHANGED <<pc, Store, ui, ctl, base_font, text, sel, grab>>

\* on_base_font_change once the Tk variables hold c
\* load_ttf catches what save_all raises and shows it
BaseFontSaved(op, arg, c, bf, r) ==
    /\ state' = r.doc
    /\ file' = IF r.ok THEN save_state(r.doc) ELSE file
    /\ last' = [Did(op) EXCEPT !.arg = arg, !.changed = (r.doc # state), !.saved = r.ok,
                               !.raised = (~r.ok /\ op # "load_ttf"),
                               !.err = (~r.ok /\ op = "load_ttf")]
    /\ hist' = [hist EXCEPT !.saved_all = @ \/ r.ok]
    /\ ctl' = c
    /\ base_font' = bf
    /\ tags' = TagsKept
    /\ UNCHANGED <<pc, Store, win, ui, text, sel, grab>>

BaseFontSized(op, arg, c, size) ==
    BaseFontSaved(op, arg, c, [base_font EXCEPT !.family = c.base_font_var, !.size = size],
        save_all(Put2(Put2(state, "base_font", "family", JStr(c.base_font_var)),
                      "base_font", "size", JInt(size)),
                 text, tags, win, ui, c,
                 [base_font EXCEPT !.family = c.base_font_var, !.size = size]))

BaseFontChange(op, arg, c) ==
    BaseFontSized(op, arg, c, clamp(c.base_size_var, MinFontSize, MaxFontSize))

\* the combobox has set base_font_var to one of its values
on_base_font_change_family(fam) ==
    BaseFontChange("on_base_font_change", "family", [ctl EXCEPT !.base_font_var = fam])

\* an arrow of the size spinbox has stepped base_size_var
on_base_font_change_size(d) ==
    BaseFontChange("on_base_font_change", "size",
        [ctl EXCEPT !.base_size_var = clamp(@ + d, MinFontSize, MaxFontSize)])

\* load_ttf that registers and selects the file before the font is read
load_ttf_early(path, fam) ==
    IF path = "" THEN
        /\ DoNothing("load_ttf", "cancel", FALSE, FALSE)
        /\ UNCHANGED <<pc, Store, win, ui, ctl, base_font, text, tags, sel, grab>>
    ELSE IF fam = "" THEN
        /\ DoNothing("load_ttf", "invalid", FALSE, TRUE)
        /\ ctl' = [ctl EXCEPT !.font_families = @ \cup {path}, !.base_font_var = path]
        /\ UNCHANGED <<pc, Store, win, ui, base_font, text, tags, sel, grab>>
    ELSE BaseFontChange("load_ttf", "loaded",
             [ctl EXCEPT !.font_families = @ \cup {fam}, !.base_font_var = fam])

\* load_ttf: path = "" when the file dialog is cancelled; fam = "" when
\* tkfont.Font(file=path) raises (Tk's "font create" has no -file option, so
\* stock Tk raises for every file), else the family the font object reports
load_ttf(path, fam) ==
    IF path = "" THEN
        /\ DoNothing("load_ttf", "cancel", FALSE, FALSE)
        /\ UNCHANGED <<pc, Store, win, ui, ctl, base_font, text, tags, sel, grab>>
    ELSE IF fam = "" THEN
        /\ DoNothing("load_ttf", "invalid", FALSE, TRUE)
        /\ UNCHANGED <<pc, Store, win, ui, ctl, base_font, text, tags, sel, grab>>
    ELSE BaseFontChange("load_ttf", "loaded",
             [ctl EXCEPT !.font_families = @ \cup {fam}, !.base_font_var = fam])

\* the Save button and <KeyRelease> in the text: self.save_all()
SaveAllHandler(op) ==
    /\ DoSaveAll(op, state, text, tags, win, ui, ctl, base_font, FALSE, FALSE)
    /\ tags' = TagsKept
    /\ UNCHANGED <<pc, Store, win, ui, ctl, base_font, text, sel, grab>>

\* root.withdraw() and root.destroy() are reached when save_all returns
on_minimize ==
    /\ DoSaveAll("on_minimize", state, text, tags, win, ui, ctl, base_font, FALSE, FALSE)
    /\ pc' = IF last'.saved THEN "hidden" ELSE pc
    /\ tags' = TagsKept
    /\ UNCHANGED <<Store, win, ui, ctl, base_font, text, sel, grab>>

on_close ==
    /\ DoSaveAll("on_close", state, text, tags, win, ui, ctl, base_font, FALSE, FALSE)
    /\ pc' = IF last'.saved THEN "closed" ELSE pc
    /\ tags' = TagsKept
    /\ UNCHANGED <<Store, win, ui, ctl, base_font, text, sel, grab>>


_on_configure ==
    /\ state' = Put(state, "geometry", JStr(GeomStr(win.w, win.h, win.x, win.y)))
    /\ file' = save_state(state')
    /\ last' = [Did("_on_configure") EXCEPT !.changed = (state' # state), !.saved = TRUE]
    /\ pc' = "running"
    /\ UNCHANGED <<Store, win, ui, ctl, base_font, text, tags, sel, grab, hist>>

_start_move(ex, ey) ==
    /\ grab' = [grab EXCEPT !.moving = TRUE, !.offx = ex - win.x, !.offy = ey - win.y]
    /\ DoNothing("_start_move", "", FALSE, FALSE)
    /\ UNCHANGED <<pc, Store, win, ui, ctl, base_font, text, tags, sel>>

\* <B1-Motion> on the title bar follows <Button-1> on it
_do_move(ex, ey) ==
    /\ grab.moving
    /\ <<ex - grab.offx, ey - grab.offy>> \in GeoPos
    /\ win' = [win EXCEPT !.x = ex - grab.offx, !.y = ey - grab.offy]
    /\ DoNothing("_do_move", "", FALSE, FALSE)
    /\ UNCHANGED <<pc, Store, ui, ctl, base_font, text, tags, sel, grab>>

_start_resize(ex, ey) ==
    /\ grab' = [grab EXCEPT !.resizing = TRUE, !.start_w = win.w, !.start_h = win.h,
                            !.start_rx = ex, !.start_ry = ey]
    /\ DoNothing("_start_resize", "", FALSE, FALSE)
    /\ UNCHANGED <<pc, Store, win, ui, ctl, base_font, text, tags, sel>>

\* <B1-Motion> on the grip follows <Button-1> on it
_do_resize(ex, ey) ==
    LET w == clamp(grab.start_w + (ex - grab.start_rx), MinW, MaxW)
        h == clamp(grab.start_h + (ey - grab.start_ry), MinH, MaxH)
    IN  /\ grab.resizing
        /\ win' = [win EXCEPT !.w = w, !.h = h]
        /\ last' = [Did("_do_resize") EXCEPT !.w = w, !.h = h]
        /\ UNCHANGED <<pc, Store, state, file, hist, ui, ctl, base_font, text, tags, sel, grab>>

(***************************************************************************)
(* What Tk's own bindings do without calling the program: selecting and    *)
(* typing in the text, typing in the border spinbox                        *)
(***************************************************************************)
Select(a, b) ==
    /\ 0 <= a /\ a < b /\ b <= Len(text) + 1
    /\ sel # <<a, b>>
    /\ sel' = <<a, b>>
    /\ UNCHANGED <<pc, Store, state, file, win, ui, ctl, base_font, text, tags, grab, last, hist>>

Unselect ==
    /\ sel # <<>>
    /\ sel' = <<>>
    /\ UNCHANGED <<pc, Store, state, file, win, ui, ctl, base_font, text, tags, grab, last, hist>>

\* a character typed at offset pos gets the tags its two neighbours share
CoverAfterInsert(cover, pos) ==
    {o \in cover : o < pos} \cup {o + 1 : o \in {q \in cover : q >= pos}}
    \cup (IF (pos - 1) \in cover /\ pos \in cover THEN {pos} ELSE {})

CoverAfterDelete(cover, pos) ==
    {o \in cover : o < pos} \cup {o - 1 : o \in {q \in cover : q > pos}}

InsertAt(T, pos, ch) == SubSeq(T, 1, pos) \o <<ch>> \o SubSeq(T, pos + 1, Len(T))
DeleteAt(T, pos) == SubSeq(T, 1, pos) \o SubSeq(T, pos + 2, Len(T))

TypeChar(pos, ch) ==
    /\ Len(text) < MaxLen
    /\ pos \in 0..Len(text)
    /\ text' = InsertAt(text, pos, ch)
    /\ tags' = [i \in DOMAIN tags |-> [tags[i] EXCEPT !.cover = CoverAfterInsert(@, pos)]]
    /\ sel' = <<>>
    /\ DoNothing("key_press", "insert", FALSE, FALSE)
    /\ UNCHANGED <<pc, Store, win, ui, ctl, base_font, grab>>

DeleteChar(pos) ==
    /\ pos \in 0..(Len(text) - 1)
    /\ text' = DeleteAt(text, pos)
    /\ tags' = [i \in DOMAIN tags |-> [tags[i] EXCEPT !.cover = CoverAfterDelete(@, pos)]]
    /\ sel' = <<>>
    /\ DoNothing("key_press", "delete", FALSE, FALSE)
    /\ UNCHANGED <<pc, Store, win, ui, ctl, base_font, grab>>

\* the user edits the text of the border spinbox: its IntVar holds what the
\* entry shows, a number or not, and no command is called
EditBorderSpin(val) ==
    /\ ctl.border_var # val
    /\ ctl' = [ctl EXCEPT !.border_var = val]
    /\ DoNothing("spin_entry", "", FALSE, FALSE)
    /\ UNCHANGED <<pc, Store, win, ui, base_font, text, tags, sel, grab>>

(***************************************************************************)
(* Documents and files the runs start from                                 *)
(***************************************************************************)
BoldTag(ranges) ==
    JTag(JObj(<< <<"font", JFont("Segoe UI", 16, "bold", "roman")>> >>), ranges)

ColorTag(color, ranges) == JTag(JObj(<< <<"foreground", JStr(color)>> >>), ranges)

TagsBold == JObj(<< <<"bold", BoldTag(<<JRange("1.0", "1.5")>>)>> >>)

TagsColor ==
    JObj(<< <<"color_#ff0000", ColorTag("#ff0000", <<JRange("1.0", "1.2"), JRange("1.3", "2.0")>>)>> >>)

\* what a hand-edited or older state file may hold under each key
GeometryOpts == {Absent, JStr("400x300+10+20")}
AlphaOpts    == {Absent, JFlt(30), JFlt(75)}
ColorsOpts   == {Absent, Empty, JObj(<< <<"text", JStr("#000000")>> >>), JStr("red"), JNull}
FontOpts     == {Absent, JObj(<< <<"size", JInt(20)>> >>)}
ContentOpts  == {Absent, JObj(<< <<"text", JStr("Hello")>> >>),
                 JObj(<< <<"tags", TagsBold>>, <<"text", JStr("Hello")>> >>), JNull}
ExtraOpts    == {Absent, JList(<<JInt(1), JStr("x")>>)}

StartDocs ==
    {OptPut(OptPut(OptPut(OptPut(OptPut(OptPut(Empty,
        "note", x), "content", ct), "alpha", a), "colors", c), "base_font", f), "geometry", g) :
        g \in GeometryOpts, a \in AlphaOpts, c \in ColorsOpts, f \in FontOpts,
        ct \in ContentOpts, x \in ExtraOpts}

\* files json.load rejects: empty, cut short, trailing text, not JSON at all
MalformedFiles ==
    {FileOf(<<>>),
     FileOf(<<P("{")>>),
     FileOf(<<P("{"), Tok("str", "alpha", 0), P(":")>>),
     FileOf(<<P("{"), Tok("str", "alpha", 0), P(":"), Tok("flt", "", 30), P(",")>> \o <<P("}")>>),
     FileOf(<<P("{"), P("}"), P("}")>>),
     FileOf(<<P("["), Tok("int", "", 1)>>),
     FileOf(<<P("junk")>>)}

StartFiles ==
    {NoFile} \cup MalformedFiles \cup {FileOf(json_dump(d)) : d \in StartDocs}
    \cup {FileOf(json_dump(JList(<<>>))), FileOf(json_dump(JInt(7)))}

WellFormed(f) == f.exists /\ json_load(f.toks) # Raise

(***************************************************************************)
(* Startup of the state store: __init__ lines 80-82                        *)
(***************************************************************************)
InitStartup ==
    /\ WidgetOff
    /\ pc = "off"
    /\ file \in StartFiles
    /\ file0 = file
    /\ state = Absent
    /\ loaded = Absent
    /\ src_doc = Absent

\* self.state = load_state(STATE_FILE)
StartLoad ==
    /\ pc = "off"
    /\ file' = ensure_state_file(file)
    /\ loaded' = load_state(file)
    /\ state' = loaded'
    /\ pc' = IF loaded' = Raise THEN "crashed" ELSE "loaded"
    /\ UNCHANGED <<file0, src_doc, wvars>>

Merged(r) ==
    IF r = Raise
    THEN pc' = "crashed" /\ state' = state
    ELSE pc' = "merged" /\ state' = r

\* self._apply_defaults()
StartMerge ==
    /\ pc = "loaded"
    /\ Merged(_apply_defaults(state))
    /\ UNCHANGED <<file, loaded, file0, src_doc, wvars>>

NextStartup == StartLoad \/ StartMerge

SpecStartup == InitStartup /\ [][NextStartup]_vars

RECURSIVE Preserves(_, _)
\* every key of doc, at any depth, is in res with doc's value
Preserves(doc, res) ==
    /\ res.t = "obj"
    /\ \A k \in DOMAIN doc.v :
        /\ k \in DOMAIN res.v
        /\ IF doc.v[k].t = "obj"
           THEN Preserves(doc.v[k], res.v[k])
           ELSE res.v[k] = doc.v[k]

RECURSIVE Fills(_, _, _)
\* every key of def that doc lacks, at any depth, is in res with def's value
Fills(def, doc, res) ==
    /\ res.t = "obj"
    /\ \A k \in DOMAIN def.v :
        /\ k \in DOMAIN res.v
        /\ IF k \notin DOMAIN doc.v
           THEN res.v[k] = def.v[k]
           ELSE (def.v[k].t = "obj" /\ doc.v[k].t = "obj")
                    => Fills(def.v[k], doc.v[k], res.v[k])

RECURSIVE ShapesAgree(_, _)
\* doc holds a dict wherever def holds one
ShapesAgree(def, doc) ==
    \A k \in DOMAIN def.v \cap DOMAIN doc.v :
        def.v[k].t = "obj" => (doc.v[k].t = "obj" /\ ShapesAgree(def.v[k], doc.v[k]))

\* C1: for every loaded document, the default merge returns a document that
\* keeps every key the document holds, at any depth, with the document's
\* value, and fills every default key the document lacks; merging into the
\* empty document gives exactly the defaults.
MergeKeepsAndFills ==
    (pc \in {"merged", "crashed"} /\ loaded.t = "obj") =>
        /\ pc = "merged"
        /\ Preserves(loaded, state)
        /\ Fills(DEFAULTS, loaded, state)
        /\ (loaded = Empty => state = DEFAULTS)

\* the same law for the documents that hold a dict wherever the defaults do:
\* deep_merge fails only where a present key holds a non-dict over a dict default
MergeLawWhenShapesAgree ==
    (pc \in {"merged", "crashed"} /\ loaded.t = "obj" /\ ShapesAgree(DEFAULTS, loaded)) =>
        /\ pc = "merged"
        /\ Preserves(loaded, state)
        /\ Fills(DEFAULTS, loaded, state)
        /\ (loaded = Empty => state = DEFAULTS)

\* C2: load_state never raises; a missing file is created holding {} and
\* load returns {}; a file that is not well-formed JSON loads as {}; in both
\* cases load followed by the default merge gives the full default document.
LoadFailsSoft ==
    /\ pc # "off" => loaded # Raise
    /\ (pc # "off" /\ ~file0.exists) =>
        /\ file.exists
        /\ json_load(file.toks) = Empty
        /\ loaded = Empty
    /\ (pc # "off" /\ file0.exists /\ ~WellFormed(file0)) =>
        /\ file = file0
        /\ loaded = Empty
    /\ (pc \in {"merged", "crashed"} /\ ~WellFormed(file0)) =>
        /\ pc = "merged"
        /\ state = DEFAULTS

LoadFailsSoftWitness ==
    /\ pc = "merged"
    /\ file0.exists
    /\ ~WellFormed(file0)
    /\ file0.toks # <<>>
    /\ state = DEFAULTS

(***************************************************************************)
(* The store alone: save_state then load_state of a valid document         *)
(***************************************************************************)
FontBold ==
    JObj(<< <<"family", JStr("Arial")>>, <<"size", JInt(18)>>, <<"weight", JStr("bold")>>,
            <<"slant", JStr("italic")>> >>)

ColorsAlt ==
    JObj(<< <<"background", JStr("#ffffff")>>, <<"text", JStr("#000000")>>,
            <<"accent", JStr("#ff0000")>>, <<"border", JStr("#00ff00")>> >>)

JContent(str, jt) == JObj(<< <<"text", JStr(str)>>, <<"tags", jt>> >>)

ValidContents ==
    {JContent("", Empty),
     JContent("Hello", TagsBold),
     JContent("ab\ncd", TagsColor),
     JContent("Hello", Put(TagsBold, "color_#ff0000", ColorTag("#ff0000", <<>>)))}

ValidDocs ==
    {JObj(<< <<"geometry", g>>, <<"always_on_top", JBool(top)>>, <<"alpha", JFlt(a)>>,
             <<"colors", c>>, <<"border_thickness", JInt(bt)>>, <<"base_font", f>>,
             <<"content", ct>> >>) :
        g \in {JStr("600x320+100+100"), JStr("320x180+0+0")},
        top \in BOOLEAN, a \in {50, 75, 100}, c \in {DEFAULTS.v.colors, ColorsAlt},
        bt \in {0, 16}, f \in {DEFAULTS.v.base_font, FontBold}, ct \in ValidContents}

InitStore ==
    /\ WidgetOff
    /\ pc = "doc"
    /\ src_doc \in ValidDocs
    /\ file \in {NoFile, FileOf(json_dump(DEFAULTS))}
    /\ file0 = file
    /\ state = Absent
    /\ loaded = Absent

\* save_state(path, doc)
StoreSave ==
    /\ pc = "doc"
    /\ file' = save_state(src_doc)
    /\ pc' = "saved"
    /\ UNCHANGED <<state, loaded, file0, src_doc, wvars>>

\* load_state(path)
StoreLoad ==
    /\ pc = "saved"
    /\ file' = ensure_state_file(file)
    /\ loaded' = load_state(file)
    /\ pc' = "reloaded"
    /\ UNCHANGED <<state, file0, src_doc, wvars>>

NextStore == StoreSave \/ StoreLoad

SpecStore == InitStore /\ [][NextStore]_vars

\* C3: save_state(path, doc) followed by load_state(path) returns a document
\* equal to doc field for field, for every valid document.
RoundTrip == pc = "reloaded" => loaded = src_doc

RoundTripWitness ==
    /\ pc = "reloaded"
    /\ loaded = src_doc
    /\ src_doc.v.alpha = JFlt(100)
    /\ src_doc.v.content.v.tags.o = <<"bold", "color_#ff0000">>

(***************************************************************************)
(* The running widget: one event of the main loop at a time                *)
(***************************************************************************)
\* a handler that counts against the length of a run, and one that does not
Budget == pc = "running" /\ steps < MaxSteps /\ steps' = steps + 1
Free == pc = "running" /\ steps' = steps

\* the first <Configure>, when the window is mapped
Mapped == pc = "mapping" /\ steps' = steps /\ _on_configure
Configure == Budget /\ _on_configure

SelectText == Free /\ \E a \in 0..MaxLen, b \in 1..(MaxLen + 1) : Select(a, b)
SelectAll == Free /\ Select(0, Len(text))
SelectNone == Free /\ Unselect
TypeKey == Budget /\ \E pos \in 0..MaxLen, ch \in Alphabet : TypeChar(pos, ch)
DeleteKey == Budget /\ \E pos \in 0..MaxLen : DeleteChar(pos)
KeyRelease == Budget /\ SaveAllHandler("key_release")
Bold == Budget /\ apply_bold
Bigger == Budget /\ apply_size(2)
Smaller == Budget /\ apply_size(0 - 2)
PickedColors == {"", "#ff0000"}
Color == Budget /\ \E color \in PickedColors : apply_color(color)
Close == Budget /\ on_close

\* the process is ended from outside: no handler runs, the file stays as the
\* last handler left it
Killed ==
    /\ Budget
    /\ pc' = "closed"
    /\ DoNothing("killed", "", FALSE, FALSE)
    /\ UNCHANGED <<Store, win, ui, ctl, base_font, text, tags, sel, grab>>

NextTags ==
    \/ Launch \/ Mapped
    \/ SelectText \/ SelectAll \/ SelectNone
    \/ TypeKey \/ DeleteKey \/ KeyRelease
    \/ Bold \/ Bigger \/ Smaller \/ Color
    \/ Close \/ Killed

\* state files for the runs about tags: the document of the bold scenario,
\* hand-made tags that touch, overlap, or have a style and no range, a text
\* of two lines, and no file
TagsHandMade ==
    JObj(<< <<"bold", BoldTag(<<JRange("1.0", "1.1"), JRange("1.1", "1.2")>>)>>,
            <<"color_#ff0000", ColorTag("#ff0000", <<JRange("1.1", "2.0")>>)>>,
            <<"color_#00ff00", ColorTag("#00ff00", <<>>)>> >>)

TagsTwoLines == JObj(<< <<"color_#ff0000", ColorTag("#ff0000", <<JRange("1.0", "2.1")>>)>> >>)

TagFiles ==
    {NoFile,
     FileOf(json_dump(JObj(<< <<"content", JContent("Hello", Empty)>> >>))),
     FileOf(json_dump(JObj(<< <<"content", JContent("aa", TagsHandMade)>> >>))),
     FileOf(json_dump(JObj(<< <<"content", JContent("\na", TagsTwoLines)>> >>)))}

InitWidget(files) ==
    /\ WidgetOff
    /\ pc = "off"
    /\ file \in files
    /\ file0 = file
    /\ state = Absent
    /\ loaded = Absent
    /\ src_doc = Absent

InitTags == InitWidget(TagFiles)

SpecTags == InitTags /\ [][NextTags]_vars

(***************************************************************************)
(* The resize grip                                                         *)
(***************************************************************************)
\* where the pointer can be, in screen coordinates
GripPointers == {<<0 - 5000, 0 - 5000>>, <<0, 0>>, <<700, 0>>, <<0, 700>>, <<5000, 5000>>,
                 <<5000, 0 - 5000>>}

GripPress == Free /\ \E p \in GripPointers : _start_resize(p[1], p[2])
GripDrag == Free /\ \E p \in GripPointers : _do_resize(p[1], p[2])
Resized == Free /\ _on_configure

NextResize == Launch \/ Mapped \/ GripPress \/ GripDrag \/ Resized

ResizeFiles ==
    {NoFile} \cup
    {FileOf(json_dump(JObj(<< <<"geometry", JStr(GeomStr(g[1], g[2], 100, 100))>> >>))) :
        g \in {<<100, 100>>, <<400, 300>>, <<MaxW, MaxH>>, <<2000, 2000>>}}

InitResize == InitWidget(ResizeFiles)

SpecResize == InitResize /\ [][NextResize]_vars

(***************************************************************************)
(* The whole widget                                                        *)
(***************************************************************************)
Channels == {"background", "text", "accent", "border"}
PickColor == Budget /\ \E which \in Channels, color \in PickedColors : pick_color(which, color)
BorderSpin == Budget /\ \E d \in {0 - 1, 1} : apply_border(d)
ScaleValues == {ScaleFrom, 75, ScaleTo}
AlphaScale == Budget /\ \E a \in ScaleValues : on_alpha_change(a)
Pin == Budget /\ toggle_pin
FontCombo == Budget /\ \E fam \in ctl.font_families : on_base_font_change_family(fam)
SizeSpin == Budget /\ \E d \in {0 - 1, 1} : on_base_font_change_size(d)
\* the file the user picks, and the family in it when Tk can read it
FontFiles == {<<"", "">>, <<"a.ttf", "">>, <<"a.ttf", "Lato">>}
LoadTtf == Budget /\ \E p \in FontFiles : load_ttf(p[1], p[2])
SaveButton == Budget /\ SaveAllHandler("save_all")
Minimize == Budget /\ on_minimize
TitlePointers == {<<105, 105>>, <<115, 115>>}
TitlePress == Budget /\ \E p \in TitlePointers : _start_move(p[1], p[2])
TitleDrag == Budget /\ \E p \in TitlePointers : _do_move(p[1], p[2])
CornerPointers == {<<0, 0>>, <<2000, 2000>>}
CornerPress == Budget /\ \E p \in CornerPointers : _start_resize(p[1], p[2])
CornerDrag == Budget /\ \E p \in CornerPointers : _do_resize(p[1], p[2])
\* what the user leaves in the border spinbox: nothing, or a number
SpinTexts == {JStr(""), JInt(7)}
BorderEntry == Budget /\ \E val \in SpinTexts : EditBorderSpin(val)

Next ==
    \/ Launch \/ Mapped \/ Configure
    \/ SelectAll
    \/ TypeKey \/ DeleteKey \/ KeyRelease
    \/ Bold \/ Bigger \/ Smaller \/ Color
    \/ PickColor \/ BorderSpin \/ BorderEntry \/ AlphaScale \/ Pin
    \/ FontCombo \/ SizeSpin \/ LoadTtf
    \/ SaveButton \/ Minimize \/ Close
    \/ TitlePress \/ TitleDrag \/ CornerPress \/ CornerDrag

\* state files for the runs of the whole widget: none, one edited by hand to
\* an opacity of 0.3, one with an opacity between two steps of the scale and
\* tags, one the merge fails on, one that is no JSON
WidgetFiles ==
    {NoFile,
     FileOf(json_dump(JObj(<< <<"alpha", JFlt(30)>>, <<"content", JContent("a", Empty)>> >>))),
     FileOf(json_dump(JObj(<< <<"alpha", JFlt(77)>>, <<"content", JContent("aa", TagsHandMade)>> >>))),
     FileOf(json_dump(JObj(<< <<"colors", JStr("red")>> >>))),
     FileOf(<<P("{")>>)}

Init == InitWidget(WidgetFiles)

Spec == Init /\ [][Next]_vars

(***************************************************************************)
(* A style action that fails in save_all, and what is captured after it    *)
(***************************************************************************)
MaxHeldSteps == 5
Held == pc = "running" /\ steps < MaxHeldSteps /\ steps' = steps + 1

HeldEntry == Held /\ \E val \in SpinTexts : EditBorderSpin(val)
HeldBold == Held /\ apply_bold
HeldDelete == Held /\ \E pos \in 0..MaxLen : DeleteChar(pos)
HeldRelease == Held /\ SaveAllHandler("key_release")
HeldClose == Held /\ on_close

NextHeld ==
    \/ Launch \/ Mapped \/ SelectAll
    \/ HeldEntry \/ HeldBold \/ HeldDelete \/ HeldRelease \/ HeldClose

HeldFiles ==
    {FileOf(json_dump(JObj(<< <<"content", JContent("a", Empty)>> >>))),
     FileOf(json_dump(JObj(<< <<"content", JContent("aa", Empty)>> >>)))}

InitHeld == InitWidget(HeldFiles)

SpecHeld == InitHeld /\ [][NextHeld]_vars

(***************************************************************************)
(* The resize grip keeps the window within its limits                      *)
(***************************************************************************)
\* C4: whatever the size the window starts a resize from and wherever the
\* pointer is dragged to, the size _do_resize asks for has its width in
\* [320, 1600] and its height in [180, 1200], and it is the size of the
\* window when the handler returns; this holds after any sequence of
\* presses and drags of the grip.
ResizeClamped ==
    last.op = "_do_resize" =>
        /\ MinW <= last.w /\ last.w <= MaxW
        /\ MinH <= last.h /\ last.h <= MaxH
        /\ win.w = last.w /\ win.h = last.h

\* a resize from a window wider and higher than the limits, dragged far to
\* the left and far down: the width stops at 320 and the height at 1200
ResizeClampedWitness ==
    /\ last.op = "_do_resize"
    /\ grab.start_w > MaxW /\ grab.start_h > MaxH
    /\ last.w = MinW /\ last.h = MaxH

(***************************************************************************)
(* Tags: capture, restore, capture                                         *)
(***************************************************************************)
\* the mapping from tag name to list of ranges of a captured map
RangeMap(jt) == [k \in DOMAIN jt.v |-> jt.v[k].v.ranges]

\* C5: a map that _capture_tags made of a text and its tags, restored by
\* _apply_tags_from_state into the fresh text widget of the next launch that
\* holds the same text, and captured again, gives the same mapping from tag
\* name to list of ranges.
CaptureRestoreCapture ==
    (pc = "mapping" /\ hist.from_capture) =>
        /\ Join(text) = state.v.content.v.text.v
        /\ RangeMap(_capture_tags(text, tags)) = RangeMap(state.v.content.v.tags)

(***************************************************************************)
(* Style actions                                                           *)
(***************************************************************************)
StyleOps == {"apply_bold", "apply_size", "apply_color"}

\* C6: when nothing is selected, apply_bold, apply_size (either delta) and
\* apply_color leave the text, the tags with their styles and ranges, the
\* in-memory document and the state file as they were, report no error and
\* raise nothing.
NoSelectionNoOp ==
    [][(steps' = steps + 1 /\ last'.op \in StyleOps /\ ~HasSel) =>
            /\ text' = text /\ tags' = tags
            /\ state' = state /\ file' = file
            /\ ~last'.err /\ ~last'.raised /\ ~last'.changed
            /\ pc' = pc]_vars

\* a style action has run with nothing selected on a text that has tags,
\* while the border spinbox held no number
NoSelectionNoOpWitness ==
    /\ last.op \in StyleOps /\ ~last.hadsel
    /\ text # <<>> /\ tags # <<>>
    /\ ~IntVarOk(ctl.border_var)

\* what capture holds after bold on [a, b) of a text without tags
BoldCapture(a, b) ==
    JObj(<< <<"bold",
              JTag(JObj(<< <<"font", JFont(base_font.family, base_font.size, "bold",
                                           base_font.slant)>> >>),
                   <<JRange(a, b)>>)>> >>)

\* C7: apply_bold on a selection [s, e) of a document whose capture holds no
\* tag makes capture hold exactly the tag bold, with the ranges [[s, e]] and
\* a font of weight bold, and that capture is in the state file when the
\* handler is over.
BoldOnTagless ==
    [][(steps' = steps + 1 /\ last'.op = "apply_bold" /\ HasSel
            /\ _capture_tags(text, tags) = Empty) =>
            /\ state'.v.content.v.tags = BoldCapture(SelStart, SelEnd)
            /\ json_load(file'.toks).v.content.v.tags = BoldCapture(SelStart, SelEnd)]_vars

(***************************************************************************)
(* Opacity                                                                 *)
(***************************************************************************)
OutOfScale(x) ==
    /\ x.t \in {"int", "flt"}
    /\ (FloatOf(x) < ScaleFrom \/ FloatOf(x) > ScaleTo)

\* C8: when the opacity of the loaded document is out of [0.5, 1.0] and the
\* opacity control has not been moved, the opacity in the state file is
\* still the loaded one, whatever else was done.
OpacityKept ==
    (pc \in {"running", "hidden", "closed"} /\ OutOfScale(hist.alpha0) /\ ~hist.alpha_moved) =>
        json_load(file.toks).v.alpha = hist.alpha0

(***************************************************************************)
(* Font files                                                              *)
(***************************************************************************)
\* C9: when load_ttf fails on the font file it reports the error and stops:
\* the base font of the in-memory document, the state file, the font
\* selectors, the list of families and the font of the text are as before,
\* and the widget goes on running.
FontLoadFailure ==
    [][(steps' = steps + 1 /\ last'.op = "load_ttf" /\ last'.arg = "invalid") =>
            /\ last'.err /\ ~last'.raised
            /\ state'.v.base_font = state.v.base_font
            /\ file' = file
            /\ ctl'.base_font_var = ctl.base_font_var
            /\ ctl'.base_size_var = ctl.base_size_var
            /\ ctl'.font_families = ctl.font_families
            /\ base_font' = base_font
            /\ pc' = "running"]_vars

\* load_ttf has failed after the base font was changed from the default one
FontLoadFailureWitness ==
    /\ last.op = "load_ttf" /\ last.arg = "invalid" /\ last.err
    /\ pc = "running"
    /\ ctl.base_font_var # DEFAULTS.v.base_font.v.family.v
    /\ state.v.base_font.v.family.v = ctl.base_font_var

(***************************************************************************)
(* The state file follows the document                                     *)
(***************************************************************************)
\* C10: once the window is up, after every handler the state file holds the
\* in-memory document.
FileIsDocument ==
    pc \in {"running", "hidden", "closed"} =>
        (file.exists /\ json_load(file.toks) = state)


(***************************************************************************)
(* The ranges of the document and its text                                 *)
(***************************************************************************)
\* the places line.col of the text T that the index string str names: the
\* line is one of T and the column is within it
PlacesOf(T, str) ==
    {lc \in (1..MaxIdx) \X (0..MaxIdx) :
        /\ IdxStr(lc[1], lc[2]) = str
        /\ lc[1] <= NumLines(T)
        /\ LineStart(T, lc[1]) + lc[2] <= LineEnd(T, LineStart(T, lc[1]))}

PlaceOffset(T, places) ==
    IF places = {} THEN BadIndex
    ELSE LineStart(T, (CHOOSE x \in places : TRUE)[1]) + (CHOOSE x \in places : TRUE)[2]

\* the offset in 0..Len(T) that str names in T, BadIndex when it names none
ExactOffset(T, str) == PlaceOffset(T, PlacesOf(T, str))

OffsetsInOrder(a, b) == a # BadIndex /\ b # BadIndex /\ a <= b

\* the range r = [start, end] lies in the text T
RangeInText(T, r) == OffsetsInOrder(ExactOffset(T, r.v[1].v), ExactOffset(T, r.v[2].v))

TagRangesInText(T, jt) ==
    \A k \in DOMAIN jt.v : \A i \in DOMAIN jt.v[k].v.ranges.v : RangeInText(T, jt.v[k].v.ranges.v[i])

\* every range of the content of doc lies in the text of doc
DocRangesInText(doc) ==
    TagRangesInText(Chars(doc.v.content.v.text.v), doc.v.content.v.tags)

\* the process started from no file, or from a file whose ranges lie in its text
StartedInText == ~file0.exists \/ DocRangesInText(json_load(file0.toks))

\* C11: once the window is up, every range [start, end] of the content of the
\* document, in memory and in the state file, names offsets of the
\* document's text, with start not after end and end not past the end of
\* the text (stated for processes that started from a document of which
\* this is true, or from no file).
RangesInText ==
    (pc \in {"running", "hidden", "closed"} /\ StartedInText) =>
        /\ DocRangesInText(state)
        /\ DocRangesInText(json_load(file.toks))

(***************************************************************************)
(* Tags that overlap: which one shows                                      *)
(***************************************************************************)
MaxStyleSteps == 3
Style == pc = "running" /\ steps < MaxStyleSteps /\ steps' = steps + 1

StyleColors == {"#ff0000", "#00ff00"}
StyleBold == Style /\ apply_bold
StyleBigger == Style /\ apply_size(2)
StyleColor == Style /\ \E color \in StyleColors : apply_color(color)
StyleClose == Style /\ on_close

NextStyle ==
    \/ Launch \/ Mapped \/ SelectAll
    \/ StyleBold \/ StyleBigger \/ StyleColor \/ StyleClose

StyleFiles == {FileOf(json_dump(JObj(<< <<"content", JContent("a", Empty)>> >>)))}

InitStyle == InitWidget(StyleFiles)

SpecStyle == InitStyle /\ [][NextStyle]_vars

\* the tags of tg that cover offset o and set a font, a foreground
FontTagsAt(tg, o) == {i \in DOMAIN tg : o \in tg[i].cover /\ tg[i].font.set}
FgTagsAt(tg, o) == {i \in DOMAIN tg : o \in tg[i].cover /\ tg[i].fg # ""}

\* what a font shows as; Tk goes on drawing with a named font that was deleted
ShownFont(f) == <<f.family, f.size, f.weight, f.slant>>

\* the font and the foreground Tk draws the character at o with: those of
\* the tag of the highest priority that covers o and sets one, else the
\* widget's own
EffectiveFont(tg, o) ==
    IF FontTagsAt(tg, o) = {} THEN ShownFont(base_font)
    ELSE ShownFont(tg[SetMax(FontTagsAt(tg, o))].font)
EffectiveFg(tg, o) ==
    IF FgTagsAt(tg, o) = {} THEN ui.text_fg ELSE tg[SetMax(FgTagsAt(tg, o))].fg

\* the offsets of the selection where two tags or more set a font, a foreground
FontContested(tg) == {o \in sel[1]..(sel[2] - 1) : Cardinality(FontTagsAt(tg, o)) >= 2}
FgContested(tg) == {o \in sel[1]..(sel[2] - 1) : Cardinality(FgTagsAt(tg, o)) >= 2}

BoldWins ==
    (HasSel /\ apply_bold) =>
        \A o \in FontContested(tags') :
            EffectiveFont(tags', o) = ShownFont([CopyOfBaseFont EXCEPT !.weight = "bold"])

SizeWins(delta) ==
    (HasSel /\ apply_size(delta)) =>
        \A o \in FontContested(tags') :
            EffectiveFont(tags', o) =
                ShownFont([CopyOfBaseFont EXCEPT
                              !.size = clamp(base_font.size + delta, MinFontSize, MaxFontSize)])

ColorWins(color) ==
    (HasSel /\ apply_color(color)) =>
        \A o \in FgContested(tags') : EffectiveFg(tags', o) = color

\* close, then launch: the widget that comes up shows every character that
\* two tags contended for as the widget that was closed did
ReloadKeepsWinner ==
    (pc = "closed" /\ last.op = "on_close" /\ pc' = "mapping") =>
        \A o \in 0..Len(text) :
            /\ Cardinality(FontTagsAt(tags, o)) >= 2 =>
                   EffectiveFont(tags', o) = EffectiveFont(tags, o)
            /\ Cardinality(FgTagsAt(tags, o)) >= 2 =>
                   EffectiveFg(tags', o) = EffectiveFg(tags, o)

\* C12: where two tags that set the same attribute cover a character, the
\* character shows the attribute of the tag whose style action was applied
\* there last, also when an earlier action had made that tag, and it shows
\* the same after close and launch (capture, save, load, restore).
LastAppliedWins ==
    [][/\ BoldWins
       /\ SizeWins(2)
       /\ \A color \in StyleColors : ColorWins(color)
       /\ ReloadKeepsWinner]_vars

====
